---- MODULE Spec2Model ----
(***************************************************************************)
(* Model of app/boot_validate.py: the request-parameter validators of the  *)
(* PID/mDL issuer (validate_mandatory_args, validate_cert_algo,            *)
(* validate_getpidtest_result, validate_params_getpid_or_mdl,              *)
(* validate_params_showpid_or_mdl, is_valid_pem_public_key).               *)
(*                                                                         *)
(* A request's query arguments are a partial function from parameter names *)
(* to strings (DOMAIN args = the keys that are present).  The Flask        *)
(* session is a partial function from session keys to strings.  A Python   *)
(* exception that leaves a function is an outcome of kind "raise".         *)
(***************************************************************************)
EXTENDS Integers, Sequences, FiniteSets, TLC

VARIABLES
    pc,           \* "idle" | "called" | "done": position of the current call
    fn,           \* name of the function of the current call
    args,         \* query arguments of the current call
    mandlist,     \* list of mandatory names of the current call
    session,      \* flask.session
    result,       \* what the call returned (or raised)
    warnings,     \* log.logger_info.warn records emitted by the current call
    at,           \* source line at which the call returned or raised
    certificate,  \* certificate bytes given to validate_cert_algo
    lalgo,        \* allow-list given to validate_cert_algo
    crypt         \* inputs of validate_getpidtest_result

vars == <<pc, fn, args, mandlist, session, result, warnings, at, certificate, lalgo, crypt>>

\* Longest list of mandatory names drawn for validate_mandatory_args alone.
MaxLen == 3

\* Longest list of mandatory names drawn for the two request validators.
MaxMand == 3

\* Python's None.
None == "<None>"

\* x in l, for a Python list l.
InList(x, l) == \E i \in 1..Len(l) : l[i] = x

\* All lists of at most n names drawn from S.
ListsUpTo(S, n) == UNION {[1..k -> S] : k \in 0..n}

\* args.get(m): the value of key m, None when the key is absent.
get(a, m) == IF m \in DOMAIN a THEN a[m] ELSE None

\* The dict holding the items of record r whose value is not None.
Present(r) == [n \in {m \in DOMAIN r : r[m] # None} |-> r[n]]

(***************************************************************************)
(* validate_mandatory_args                                                 *)
(***************************************************************************)

\* Variant: an empty value is treated like a missing one (`if not args.get(m)`).
IsMissing_falsy(a, m) == get(a, m) \in {None, ""}

\* The loop's test: args.get(m) is None.
IsMissing(a, m) == get(a, m) = None

RECURSIVE mand_loop(_, _, _, _)
\* The for-loop over mandlist, with the accumulators b and l.
mand_loop(a, rest, b, l) ==
    IF rest = <<>> THEN <<b, l>>
    ELSE IF IsMissing(a, Head(rest))
         THEN mand_loop(a, Tail(rest), FALSE, Append(l, Head(rest)))
         ELSE mand_loop(a, Tail(rest), b, l)

validate_mandatory_args(a, ml) == mand_loop(a, ml, TRUE, <<>>)

\* Names and values drawn when validate_mandatory_args is exercised alone.
MandNames == {"device_publickey", "returnURL", "country"}

MandValues == {None, "", "PT"}

MandArgs == {Present(r) : r \in [MandNames -> MandValues]}

NoArgs == Present([n \in MandNames |-> None])

NoSession == [k \in {"route", "version"} |-> IF k = "route" THEN "/pid/getpid" ELSE "0.4"]

NoLalgo == [a \in {} |-> {}]

NoCrypt == [used |-> FALSE]

InitMandatory ==
    /\ pc = "called"
    /\ fn = "validate_mandatory_args"
    /\ args \in MandArgs
    /\ mandlist \in ListsUpTo(MandNames, MaxLen)
    /\ session = NoSession
    /\ result = <<>>
    /\ warnings = <<>>
    /\ at = 0
    /\ certificate = ""
    /\ lalgo = NoLalgo
    /\ crypt = NoCrypt

CallMandatory ==
    /\ pc = "called"
    /\ fn = "validate_mandatory_args"
    /\ result' = validate_mandatory_args(args, mandlist)
    /\ pc' = "done"
    /\ at' = 68
    /\ UNCHANGED <<fn, args, mandlist, session, warnings, certificate, lalgo, crypt>>

NextMandatory == CallMandatory

SpecMandatory == InitMandatory /\ [][NextMandatory]_vars

\* C1: validate_mandatory_args returns (TRUE, []) iff every required name is a
\* key of args; otherwise (FALSE, missing) where missing is exactly the
\* subsequence of the required names absent from args, in input order, one
\* entry per occurrence; an empty-string value counts as present.
C1_MandatoryExact ==
    (pc = "done" /\ fn = "validate_mandatory_args") =>
        LET absent(m) == m \notin DOMAIN args
            idx == {i \in 1..Len(mandlist) : absent(mandlist[i])}
            b == result[1]
            l == result[2]
        IN /\ b \in BOOLEAN
           /\ b <=> (\A i \in 1..Len(mandlist) : mandlist[i] \in DOMAIN args)
           /\ b => l = <<>>
           /\ Len(l) = Cardinality(idx)
           /\ \A k \in 1..Len(l) :
                \* l[k] is the k-th absent entry of mandlist
                \E i \in idx : /\ Cardinality({j \in idx : j <= i}) = k
                               /\ l[k] = mandlist[i]

\* A duplicated absent name was reported twice while a name holding the empty
\* string was accepted as present.
C1_Witness ==
    /\ pc = "done" /\ fn = "validate_mandatory_args"
    /\ mandlist = <<"country", "returnURL", "country">>
    /\ "country" \notin DOMAIN args
    /\ "returnURL" \in DOMAIN args /\ args["returnURL"] = ""
    /\ result = <<FALSE, <<"country", "country">>>>

(***************************************************************************)
(* validate_cert_algo                                                      *)
(***************************************************************************)

\* A parsed X.509 certificate: the name of its signature algorithm, the kind
\* of its public key and, for an elliptic-curve key, the curve's name.
Cert(alg, kind, curve) == [sigalg |-> alg, key |-> kind, curve |-> curve]

\* x509.load_pem_x509_certificate on the PEM texts of the model: the texts it
\* parses, with the certificate each holds.  Every other text is rejected.
CertTable ==
       ("PEM{ecdsa-with-SHA256/secp256r1}" :> Cert("ecdsa-with-SHA256", "EC", "secp256r1"))
    @@ ("PEM{ecdsa-with-SHA256/secp384r1}" :> Cert("ecdsa-with-SHA256", "EC", "secp384r1"))
    @@ ("PEM{ecdsa-with-SHA384/secp256r1}" :> Cert("ecdsa-with-SHA384", "EC", "secp256r1"))
    @@ ("PEM{ecdsa-with-SHA384/secp384r1}" :> Cert("ecdsa-with-SHA384", "EC", "secp384r1"))
    @@ ("PEM{ecdsa-with-SHA512/secp256r1}" :> Cert("ecdsa-with-SHA512", "EC", "secp256r1"))
    @@ ("PEM{ecdsa-with-SHA256/rsa}" :> Cert("ecdsa-with-SHA256", "RSA", ""))
    @@ ("PEM{sha256WithRSAEncryption/rsa}" :> Cert("sha256WithRSAEncryption", "RSA", ""))

\* Whether load_pem_x509_certificate returns (instead of raising).
Parses(bytes) == bytes \in DOMAIN CertTable

\* str(e) of the exception load_pem_x509_certificate raises.
x509_error(bytes) == "Unable to load PEM file."

\* An outcome of validate_cert_algo: the returned triple, or the exception.
CertRet(b, algo, curve) == [kind |-> "return", ok |-> b, algo |-> algo, curve |-> curve, exc |-> ""]

CertRaise(e) == [kind |-> "raise", ok |-> FALSE, algo |-> "", curve |-> "", exc |-> e]

\* `algname not in lalgo`, negated.
AlgAllowed(la, algname) == algname \in DOMAIN la

\* Variant: the curve is looked up in every algorithm's list.
CurveAllowed_any(la, algname, curvname) == \E a \in DOMAIN la : curvname \in la[a]

\* `curvname not in lalgo[algname]`, negated.
CurveAllowed(la, algname, curvname) == curvname \in la[algname]

validate_cert_algo(bytes, la) ==
    IF ~Parses(bytes) THEN CertRet(FALSE, x509_error(bytes), "unknown")
    ELSE LET cert == CertTable[bytes]
             algname == cert.sigalg
         IN \* cert.public_key().curve: only an elliptic-curve key has a curve
            IF cert.key # "EC" THEN CertRaise("AttributeError")
            ELSE LET curvname == cert.curve
                 IN IF ~AlgAllowed(la, algname) THEN CertRet(FALSE, algname, curvname)
                    ELSE IF ~CurveAllowed(la, algname, curvname)
                         THEN CertRet(FALSE, algname, curvname)
                         ELSE CertRet(TRUE, algname, curvname)

\* The certificate texts and allow-lists drawn when validate_cert_algo is
\* exercised alone.
CertBytes == DOMAIN CertTable \cup {"", "not a certificate"}

AllowAlgs == {"ecdsa-with-SHA256", "ecdsa-with-SHA384"}

AllowCurves == {"secp256r1", "secp384r1"}

AllowLists == UNION {[A -> SUBSET AllowCurves] : A \in SUBSET AllowAlgs}

InitCert ==
    /\ pc = "called"
    /\ fn = "validate_cert_algo"
    /\ certificate \in CertBytes
    /\ lalgo \in AllowLists
    /\ args = NoArgs
    /\ mandlist = <<>>
    /\ session = NoSession
    /\ result = CertRaise("")
    /\ warnings = <<>>
    /\ at = 0
    /\ crypt = NoCrypt

CallCertAlgo ==
    /\ pc = "called"
    /\ fn = "validate_cert_algo"
    /\ result' = validate_cert_algo(certificate, lalgo)
    /\ pc' = "done"
    /\ at' = IF result'.kind = "raise" THEN 88
             ELSE IF ~Parses(certificate) THEN 86
             ELSE IF result'.ok THEN 95
             ELSE IF AlgAllowed(lalgo, result'.algo) THEN 93 ELSE 91
    /\ UNCHANGED <<fn, args, mandlist, session, warnings, certificate, lalgo, crypt>>

NextCert == CallCertAlgo

SpecCert == InitCert /\ [][NextCert]_vars

\* C2: for a certificate that parses, validate_cert_algo returns ok = TRUE iff
\* the signature algorithm is a key of the allow-list and the public key's
\* curve is in the set mapped to that same algorithm (a curve allowed only
\* under another algorithm is rejected); whenever it accepts or rejects, the
\* returned (algorithm, curve) pair is the pair extracted from the
\* certificate, and a certificate whose key has a curve is always answered.
C2_CertAlgoExact ==
    (pc = "done" /\ fn = "validate_cert_algo" /\ Parses(certificate)) =>
        LET c == CertTable[certificate]
        IN /\ (result.kind = "return" /\ result.ok)
                <=> (/\ c.key = "EC"
                     /\ c.sigalg \in DOMAIN lalgo
                     /\ c.curve \in lalgo[c.sigalg])
           /\ result.kind = "return" => (result.algo = c.sigalg /\ result.curve = c.curve)
           /\ c.key = "EC" => result.kind = "return"

\* A certificate whose curve is allowed under another algorithm only was
\* rejected, with the extracted pair.
C2_Witness ==
    /\ pc = "done" /\ fn = "validate_cert_algo"
    /\ certificate = "PEM{ecdsa-with-SHA256/secp384r1}"
    /\ DOMAIN lalgo = AllowAlgs
    /\ lalgo["ecdsa-with-SHA256"] = {"secp256r1"}
    /\ lalgo["ecdsa-with-SHA384"] = {"secp384r1"}
    /\ result = CertRet(FALSE, "ecdsa-with-SHA256", "secp384r1")

(***************************************************************************)
(* Collaborators of the request validators: configuration, the codecs and  *)
(* the shapes of what a validator returns.                                 *)
(***************************************************************************)

\* cfgcountries.supported_countries.keys()
supported_countries == {"PT", "EE"}

\* cfgserv.cert_algo_list
cert_algo_list ==
       ("ecdsa-with-SHA256" :> {"secp256r1"})
    @@ ("ecdsa-with-SHA384" :> {"secp384r1"})

\* cfgserv.error_list: the message text of each error code the validators use.
ErrorTexts ==
       ("11" :> "<error_list['11']>") @@ ("14" :> "<error_list['14']>")
    @@ ("15" :> "<error_list['15']>") @@ ("16" :> "<error_list['16']>")
    @@ ("101" :> "<error_list['101']>") @@ ("102" :> "<error_list['102']>")
    @@ ("103" :> "<error_list['103']>") @@ ("104" :> "<error_list['104']>")

\* cfgserv.error_list[code]
error_list(code) == ErrorTexts[code]

HTTP_400_BAD_REQUEST == 400

HTTP_206_PARTIAL_CONTENT == 206

HTTP_203_NON_AUTHORITATIVE_INFORMATION == 203

\* base64.urlsafe_b64decode on the texts of the model: the texts it decodes,
\* with the bytes each encodes.  On every other text ("abc" has a wrong
\* padding) it raises binascii.Error.
B64Table ==
       ("b64{PEM{ecdsa-with-SHA256/secp256r1}}" :> "PEM{ecdsa-with-SHA256/secp256r1}")
    @@ ("b64{PEM{ecdsa-with-SHA256/secp384r1}}" :> "PEM{ecdsa-with-SHA256/secp384r1}")
    @@ ("b64{PEM{ecdsa-with-SHA512/secp256r1}}" :> "PEM{ecdsa-with-SHA512/secp256r1}")
    @@ ("b64{PEM{sha256WithRSAEncryption/rsa}}" :> "PEM{sha256WithRSAEncryption/rsa}")
    @@ ("b64{not a certificate}" :> "not a certificate")
    @@ ("b64{PEM PUBLIC KEY}" :> "PEM PUBLIC KEY")
    @@ ("b64{PEM PRIVATE KEY}" :> "PEM PRIVATE KEY")

B64Decodes(s) == s \in DOMAIN B64Table

urlsafe_b64decode(s) == B64Table[s]

\* serialization.load_pem_public_key returns (instead of raising) on these.
PemPublicKeys == {"PEM PUBLIC KEY"}

\* validators.url(u) is truthy on these.
ValidatorUrls == {"https://wallet.example/cb"}

\* urlparse(u).scheme
urlparse_scheme(u) ==
    CASE u = "https://wallet.example/cb" -> "https"
      [] u = "wallet:cb" -> "wallet"
      [] OTHER -> ""

validators_url(u) == u \in ValidatorUrls

\* What a request validator hands back: True, a (body, status) pair, the
\* redirect built by redirect_getpid_or_mdl, or an exception.
Blank ==
    [kind |-> "none", body |-> <<>>, status |-> 0, version |-> "", target |-> "",
     code |-> 0, extra |-> <<>>, exc |-> ""]

Valid == [Blank EXCEPT !.kind = "Valid"]

Local(body, status) == [Blank EXCEPT !.kind = "local", !.body = body, !.status = status]

redirect_getpid_or_mdl(version, url, code, extra) ==
    [Blank EXCEPT !.kind = "redirect", !.version = version, !.target = url,
                  !.code = code, !.extra = extra]

Raise(e) == [Blank EXCEPT !.kind = "raise", !.exc = e]

\* The text of a warning: " - WARN - " + route + " - " + pk + " - " + msg,
\* kept as the list of the concatenated parts.
WarnWithKey(route, pk, msg) == <<" - WARN - ", route, " - ", pk, " - ", msg>>

\* The text of a warning without a key: " - WARN - " + route + " - " + msg.
WarnNoKey(route, msg) == <<" - WARN - ", route, " - ", msg>>

\* session[k] = v
SetItem(sess, k, v) == [n \in DOMAIN sess \cup {k} |-> IF n = k THEN v ELSE sess[n]]

\* Where a validator stopped (source line), what it handed back, the session
\* it left and the warnings it logged.
Stop(line, ret, sess, w) == [at |-> line, ret |-> ret, session |-> sess, warnings |-> w]

(***************************************************************************)
(* is_valid_pem_public_key                                                 *)
(***************************************************************************)

is_valid_pem_public_key(pem_key) == pem_key \in PemPublicKeys

(***************************************************************************)
(* validate_params_getpid_or_mdl                                           *)
(***************************************************************************)

\* session['device_publickey'] = args['device_publickey']
RecordDevicePublicKey(sess, a) == SetItem(sess, "device_publickey", a["device_publickey"])

\* Variant: the return URL is not recorded.
RecordReturnURL_skip(sess, a) == sess

\* session['returnURL'] = args['returnURL']
RecordReturnURL(sess, a) == SetItem(sess, "returnURL", a["returnURL"])

\* Variant: the well-formedness check is left out.
ReturnURLMalformed_never(u) == FALSE

\* not validators.url(u), and urlparse(u) has no scheme.
ReturnURLMalformed(u) == ~validators_url(u) /\ urlparse_scheme(u) = ""

\* Lines 166-183: the certificate and device-key checks.
getpid_certificate(a, l, s2) ==
    LET route == s2["route"]
        dpk == a["device_publickey"]
        url == a["returnURL"]
        caught == IF "certificate" \notin DOMAIN a THEN "'certificate'"
                  ELSE IF ~B64Decodes(a["certificate"]) THEN "Incorrect padding"
                  ELSE ""
    IN IF caught # ""
       THEN Stop(171,
                 redirect_getpid_or_mdl(s2["version"], url, 103,
                     << <<"error_str", <<"Certificate not correctly encoded - ", caught>>>> >>),
                 s2, <<WarnWithKey(route, dpk, error_list("103"))>>)
       ELSE LET v == validate_cert_algo(urlsafe_b64decode(a["certificate"]), cert_algo_list)
            IN IF v.kind = "raise" THEN Stop(173, Raise(v.exc), s2, <<>>)
               ELSE IF ~v.ok
               THEN Stop(176,
                         redirect_getpid_or_mdl(s2["version"], url, 104,
                             << <<"error_str", <<"Certificate algorithm (", v.algo,
                                                 ") or curve (", v.curve, ") not supported.">>>> >>),
                         s2, <<WarnWithKey(route, dpk, error_list("104"))>>)
               ELSE IF ~InList("device_publickey", l)
               THEN IF ~B64Decodes(dpk) THEN Stop(178, Raise("binascii.Error"), s2, <<>>)
                    ELSE IF is_valid_pem_public_key(urlsafe_b64decode(dpk)) = FALSE
                    THEN Stop(181,
                              Local(<<"Error 16: ", error_list("16"), "\n">>, HTTP_400_BAD_REQUEST),
                              s2, <<WarnNoKey(route, error_list("16"))>>)
                    ELSE Stop(183, Valid, s2, <<>>)
               ELSE Stop(183, Valid, s2, <<>>)

\* Lines 150-165: the return URL, country and mandatory-field checks.
getpid_returnurl(a, b, l, s2) ==
    LET route == s2["route"]
        dpk == a["device_publickey"]
        url == a["returnURL"]
    IN IF ReturnURLMalformed(url)
       THEN Stop(155, Local(<<"Error 14: ", error_list("14"), "\n">>, HTTP_400_BAD_REQUEST),
                 s2, <<WarnWithKey(route, dpk, error_list("14"))>>)
       ELSE IF ~InList("country", l) /\ "country" \notin DOMAIN a
       THEN Stop(159, Raise("KeyError"), s2, <<>>)
       ELSE IF ~InList("country", l) /\ a["country"] \notin supported_countries
       THEN Stop(161, redirect_getpid_or_mdl(s2["version"], url, 102, <<>>),
                 s2, <<WarnWithKey(route, dpk, error_list("102"))>>)
       ELSE IF ~b
       THEN Stop(165, redirect_getpid_or_mdl(s2["version"], url, 101, <<>>),
                 s2, <<WarnWithKey(route, dpk, error_list("101"))>>)
       ELSE getpid_certificate(a, l, s2)

validate_params_getpid_or_mdl(a, list, sess) ==
    LET bl == validate_mandatory_args(a, list)
        b == bl[1]
        l == bl[2]
        route == sess["route"]
    IN IF InList("device_publickey", l)
       THEN Stop(139, Local(<<"Error 15: ", error_list("15"), "\n">>, HTTP_400_BAD_REQUEST),
                 sess, <<WarnNoKey(route, error_list("15"))>>)
       ELSE IF "device_publickey" \notin DOMAIN a
       THEN Stop(141, Raise("KeyError"), sess, <<>>)
       ELSE LET s1 == RecordDevicePublicKey(sess, a)
            IN IF InList("returnURL", l)
               THEN Stop(146, Local(<<"Error 11: ", error_list("11"), "\n">>, HTTP_400_BAD_REQUEST),
                         s1, <<WarnWithKey(route, a["device_publickey"], error_list("11"))>>)
               ELSE IF "returnURL" \notin DOMAIN a
               THEN Stop(148, Raise("KeyError"), s1, <<>>)
               ELSE getpid_returnurl(a, b, l, RecordReturnURL(s1, a))

(***************************************************************************)
(* validate_params_showpid_or_mdl                                          *)
(***************************************************************************)

\* int(s) returns (instead of raising ValueError) on these texts.
IntParses(s) == s \in {"0", "5"}

\* int(s)
int(s) == CASE s = "0" -> 0 [] s = "5" -> 5

\* `not b or 'error' in l`
ShowIncomplete(b, l) == ~b \/ InList("error", l)

validate_params_showpid_or_mdl(a, list, sess) ==
    LET bl == validate_mandatory_args(a, list)
        b == bl[1]
        l == bl[2]
    IN IF ShowIncomplete(b, l)
       THEN IF "device_publickey" \notin DOMAIN sess
            THEN Stop(201, Raise("KeyError"), sess, <<>>)
            ELSE Stop(202, Local(<<"Error 101: ", error_list("101")>>, HTTP_206_PARTIAL_CONTENT),
                      sess,
                      <<WarnWithKey(sess["route"], sess["device_publickey"], error_list("101"))>>)
       ELSE IF "error" \notin DOMAIN a THEN Stop(204, Raise("KeyError"), sess, <<>>)
       ELSE IF ~IntParses(a["error"]) THEN Stop(204, Raise("ValueError"), sess, <<>>)
       ELSE IF int(a["error"]) # 0
       THEN IF "error_str" \notin DOMAIN a
            THEN Stop(206, Raise("KeyError"), sess, <<>>)
            ELSE Stop(206,
                      Local(<<"Error ", a["error"], ": ", a["error_str"]>>,
                            HTTP_203_NON_AUTHORITATIVE_INFORMATION),
                      sess, <<>>)
       ELSE Stop(209, Valid, sess, <<>>)

(***************************************************************************)
(* The requests of one session: each request runs one validator to its     *)
(* end; the session outlives the request.                                  *)
(***************************************************************************)

GetpidNames == {"device_publickey", "returnURL", "country", "certificate"}

GetpidArgs ==
    {Present(r) : r \in
        [device_publickey : {None, "b64{PEM PUBLIC KEY}", "b64{PEM PRIVATE KEY}", "abc"},
         returnURL : {None, "https://wallet.example/cb", "wallet:cb", "not-a-url"},
         country : {None, "PT", "ZZ"},
         certificate : {None, "abc", "b64{not a certificate}",
                        "b64{PEM{ecdsa-with-SHA256/secp256r1}}",
                        "b64{PEM{ecdsa-with-SHA256/secp384r1}}",
                        "b64{PEM{ecdsa-with-SHA512/secp256r1}}",
                        "b64{PEM{sha256WithRSAEncryption/rsa}}"}]}

ShowpidNames == {"error", "error_str", "country"}

ShowpidArgs ==
    {Present(r) : r \in
        [error : {None, "0", "5", "x"},
         error_str : {None, "access_denied"},
         country : {None, "PT"}]}

Init ==
    /\ pc = "idle"
    /\ fn = ""
    /\ args = NoArgs
    /\ mandlist = <<>>
    /\ session = NoSession
    /\ result = Blank
    /\ warnings = <<>>
    /\ at = 0
    /\ certificate = ""
    /\ lalgo = NoLalgo
    /\ crypt = NoCrypt

\* A request to /pid/getpid or /mdl/getmdl.
GetpidOrMdl ==
    /\ pc = "idle"
    /\ \E a \in GetpidArgs, list \in ListsUpTo(GetpidNames, MaxMand) :
         LET r == validate_params_getpid_or_mdl(a, list, session)
         IN /\ fn' = "validate_params_getpid_or_mdl"
            /\ args' = a
            /\ mandlist' = list
            /\ session' = r.session
            /\ result' = r.ret
            /\ warnings' = r.warnings
            /\ at' = r.at
    /\ pc' = "done"
    /\ UNCHANGED <<certificate, lalgo, crypt>>

\* A request to /pid/show or /mdl/show.
ShowpidOrMdl ==
    /\ pc = "idle"
    /\ \E a \in ShowpidArgs, list \in ListsUpTo(ShowpidNames, MaxMand) :
         LET r == validate_params_showpid_or_mdl(a, list, session)
         IN /\ fn' = "validate_params_showpid_or_mdl"
            /\ args' = a
            /\ mandlist' = list
            /\ session' = r.session
            /\ result' = r.ret
            /\ warnings' = r.warnings
            /\ at' = r.at
    /\ pc' = "done"
    /\ UNCHANGED <<certificate, lalgo, crypt>>

\* The request is answered; the session is kept for the next one.
Respond ==
    /\ pc = "done"
    /\ pc' = "idle"
    /\ fn' = ""
    /\ args' = NoArgs
    /\ mandlist' = <<>>
    /\ result' = Blank
    /\ warnings' = <<>>
    /\ at' = 0
    /\ UNCHANGED <<session, certificate, lalgo, crypt>>

Next == GetpidOrMdl \/ ShowpidOrMdl \/ Respond

Spec == Init /\ [][Next]_vars

(***************************************************************************)
(* Properties of the request validators                                    *)
(***************************************************************************)

GetpidDone == pc = "done" /\ fn = "validate_params_getpid_or_mdl"

ShowpidDone == pc = "done" /\ fn = "validate_params_showpid_or_mdl"

IsLocal400 == result.kind = "local" /\ result.status = 400

IsRedirect(code) == result.kind = "redirect" /\ result.code = code

\* Some name of the caller's list is not a key of args.
SomeMandatoryMissing == \E i \in 1..Len(mandlist) : mandlist[i] \notin DOMAIN args

\* The certificate argument decodes and validate_cert_algo's policy accepts it.
CertificateAccepted ==
    /\ Parses(B64Table[args["certificate"]])
    /\ LET c == CertTable[B64Table[args["certificate"]]]
       IN /\ c.key = "EC"
          /\ c.sigalg \in DOMAIN cert_algo_list
          /\ c.curve \in cert_algo_list[c.sigalg]

\* C3: validate_params_getpid_or_mdl reports the first failing check of the
\* fixed order (1) device_publickey absent -> local 400, (2) returnURL absent
\* -> local 400, (3) returnURL without scheme -> local 400, (4) country
\* supplied and unsupported -> redirect 102, (5) a mandatory field missing ->
\* redirect 101, (6) certificate not base64url-decodable -> redirect 103,
\* (7) certificate rejected by validate_cert_algo -> redirect 104, (8) device
\* key not a PEM public key -> local 400 with error 16; and returns Valid iff
\* none of the eight fails, for every args and every list of mandatory names.
C3_FirstFailingCheck ==
    GetpidDone =>
        IF "device_publickey" \notin DOMAIN args THEN IsLocal400
        ELSE IF "returnURL" \notin DOMAIN args THEN IsLocal400
        ELSE IF urlparse_scheme(args["returnURL"]) = "" THEN IsLocal400
        ELSE IF "country" \in DOMAIN args /\ args["country"] \notin supported_countries
             THEN IsRedirect(102) /\ result.target = args["returnURL"]
        ELSE IF SomeMandatoryMissing THEN IsRedirect(101)
        ELSE IF "certificate" \notin DOMAIN args \/ ~B64Decodes(args["certificate"])
             THEN IsRedirect(103)
        ELSE IF ~CertificateAccepted
             THEN IsRedirect(104) /\ Len(result.extra) = 1
        ELSE IF ~B64Decodes(args["device_publickey"])
                \/ B64Table[args["device_publickey"]] \notin PemPublicKeys
             THEN IsLocal400 /\ result.body[1] = "Error 16: "
        ELSE result = Valid

\* C4: whatever the list of mandatory names, a request without device_publickey
\* is answered with a local HTTP 400 (no redirect, no Valid, and
\* args['device_publickey'] is not read: the call ends at line 139), and a
\* request with device_publickey but without returnURL is answered with a
\* local HTTP 400.
C4_MissingKeyOrUrlIsLocal400 ==
    GetpidDone =>
        /\ "device_publickey" \notin DOMAIN args => (IsLocal400 /\ at = 139)
        /\ ("device_publickey" \in DOMAIN args /\ "returnURL" \notin DOMAIN args) => IsLocal400

\* The warning of the current call names this error code.
Logged(code) == \E i \in 1..Len(warnings) : InList(error_list(code), warnings[i])

C6_ShowOutcome ==
    ShowpidDone =>
        LET is101 == /\ result.kind = "local"
                     /\ result.status = 206
                     /\ result.body = <<"Error 101: ", error_list("101")>>
        IN /\ is101 <=> (SomeMandatoryMissing \/ "error" \notin DOMAIN args)
           /\ (~is101 /\ IntParses(get(args, "error")) /\ int(args["error"]) # 0) =>
                 /\ result.kind = "local"
                 /\ result.status = 203
                 /\ result.body = <<"Error ", args["error"], ": ", get(args, "error_str")>>
           /\ (~is101 /\ IntParses(get(args, "error")) /\ int(args["error"]) = 0) =>
                 result = Valid

\* C7: no parse or decode failure (base64, X.509, PEM, the certificate key's
\* curve) leaves validate_params_getpid_or_mdl as a raw exception: the call
\* ends with Valid, a local (message, status) error or a redirect.
C7_NoDecodeFailureEscapes ==
    (GetpidDone /\ at >= 166) => result.kind \in {"Valid", "local", "redirect"}

\* C9: session writes follow the check order.  The missing-device_publickey
\* error leaves the session unchanged; the missing-returnURL error has changed
\* session['device_publickey'] only; a call that got past both presence checks
\* (it reached line 150) has recorded args['device_publickey'] and
\* args['returnURL'], whatever it returns; no other session key is written or
\* removed; validate_params_showpid_or_mdl writes nothing.
C9_SessionWrites ==
    [][ (pc = "idle" /\ pc' = "done") =>
          /\ fn' = "validate_params_showpid_or_mdl" => session' = session
          /\ fn' = "validate_params_getpid_or_mdl" =>
               /\ Logged("15")' => session' = session
               /\ Logged("11")' =>
                     session' = SetItem(session, "device_publickey", args'["device_publickey"])
               /\ at' >= 150 =>
                     /\ get(session', "device_publickey") = args'["device_publickey"]
                     /\ get(session', "returnURL") = args'["returnURL"]
               /\ DOMAIN session \subseteq DOMAIN session'
               /\ DOMAIN session' \subseteq DOMAIN session \cup {"device_publickey", "returnURL"}
               /\ \A k \in DOMAIN session \ {"device_publickey", "returnURL"} :
                     session'[k] = session[k]
               /\ at' < 142 => session' = session
               /\ at' < 149 => get(session', "returnURL") = get(session, "returnURL")
      ]_vars

\* A return URL without scheme was recorded in the session by the call that
\* rejected it.
C9_Witness ==
    /\ GetpidDone
    /\ at = 155
    /\ Logged("14")
    /\ session["returnURL"] = "not-a-url"
    /\ session["device_publickey"] = args["device_publickey"]

\* The key the warnings of a validator are to name: the request's
\* device_publickey, for /show the one recorded in the session.
KeyOfRequest ==
    IF fn = "validate_params_getpid_or_mdl" THEN get(args, "device_publickey")
    ELSE get(session, "device_publickey")

\* C10: a call that ends in an error outcome (local response or redirect) has
\* logged exactly one warning, which contains session['route'] and the
\* device_publickey; a call that returns Valid has logged none.
C10_OneWarningPerError ==
    (pc = "done" /\ fn \in {"validate_params_getpid_or_mdl", "validate_params_showpid_or_mdl"}) =>
        /\ result.kind \in {"local", "redirect"} =>
              /\ Len(warnings) = 1
              /\ InList(session["route"], warnings[1])
              /\ KeyOfRequest # None
              /\ InList(KeyOfRequest, warnings[1])
        /\ result = Valid => warnings = <<>>

(***************************************************************************)
(* validate_getpidtest_result                                              *)
(*                                                                         *)
(* The curve is a group of prime order whose points are written by their   *)
(* multiple of the generator; a ciphertext names the key that sealed it    *)
(* and the message; a tag names the key, the nonce and the message.        *)
(***************************************************************************)

\* Order of the group of registry.get_curve(name).
CurveOrder == 5

Scalars == 1..(CurveOrder - 1)

\* d * P on the curve.
ScalarMult(d, point) == [curve |-> point.curve, x |-> (d * point.x) % CurveOrder]

\* The public key of private scalar d, as a cryptography key object.
PublicKey(d) == [curve |-> "secp256r1", numbers |-> [x |-> d]]

\* ec.Point(registry.get_curve(k.public_numbers().curve.name),
\*          k.public_numbers().x, k.public_numbers().y)
ec_Point(k) == [curve |-> k.curve, x |-> k.numbers.x]

\* AES-256-GCM under the key derived from a shared point.
Seal(shared, msg) == [key |-> shared, msg |-> msg]

Mac(shared, nonce, ciphertext) == [key |-> shared, nonce |-> nonce, msg |-> ciphertext.msg]

\* decrypt_ECC succeeds: the tag verifies under the key derived from
\* privKey * pubKey.
TagVerifies(ciphertext, nonce, authTag, pubKey, privKey) ==
    authTag = Mac(ScalarMult(privKey, pubKey), nonce, ciphertext)

\* decrypt_ECC's plaintext when the tag verifies.
decrypt_ECC(ciphertext, nonce, authTag, pubKey, privKey) == ciphertext.msg

\* bytes.decode() returns (instead of raising UnicodeDecodeError) on these.
Utf8Table ==
       (<<104, 105>> :> "hi")
    @@ (<<98, 121, 101>> :> "bye")

Messages == DOMAIN Utf8Table \cup {<<255>>}

CryptRet(v) == [kind |-> "return", value |-> v, exc |-> ""]

CryptRaise(e) == [kind |-> "raise", value |-> FALSE, exc |-> e]

\* c.failure tells how decrypt_ECC reports a decryption failure: "raises" (an
\* exception of its own) or "value" (a value that is no bytes object, on
\* which .decode() raises AttributeError).
validate_getpidtest_result(c) ==
    LET pub == ec_Point(c.ciphertextPubKey)
        priv == c.privatekey
    IN IF ~TagVerifies(c.ciphertext, c.nonce, c.authTag, pub, priv)
       THEN IF c.failure = "raises" THEN CryptRaise("DecryptionFailure")
            ELSE CryptRaise("AttributeError")
       ELSE LET decryptedMsg == decrypt_ECC(c.ciphertext, c.nonce, c.authTag, pub, priv)
            IN IF decryptedMsg \notin DOMAIN Utf8Table THEN CryptRaise("UnicodeDecodeError")
               ELSE CryptRet(Utf8Table[decryptedMsg] = c.plaintext)

\* eccEnc: msg sealed for the public key of `recipient` with ephemeral scalar r.
Encrypted(recipient, r, msg, nonce) ==
    LET shared == ScalarMult(r, ec_Point(PublicKey(recipient)))
        ct == Seal(shared, msg)
    IN [ciphertext |-> ct, nonce |-> nonce, authTag |-> Mac(shared, nonce, ct),
        ciphertextPubKey |-> PublicKey(r)]

InitCrypt ==
    /\ pc = "called"
    /\ fn = "validate_getpidtest_result"
    /\ \E recipient \in Scalars, r \in Scalars, msg \in Messages, tagOk \in BOOLEAN,
          priv \in Scalars, expected \in {"hi", "bye"}, failure \in {"raises", "value"} :
         LET e == Encrypted(recipient, r, msg, "nonce")
         IN crypt = [used |-> TRUE, recipient |-> recipient, message |-> msg,
                     ciphertext |-> e.ciphertext, nonce |-> e.nonce,
                     authTag |-> IF tagOk THEN e.authTag
                                 ELSE [e.authTag EXCEPT !.nonce = "corrupted"],
                     ciphertextPubKey |-> e.ciphertextPubKey,
                     plaintext |-> expected, privatekey |-> priv, failure |-> failure]
    /\ args = NoArgs
    /\ mandlist = <<>>
    /\ session = NoSession
    /\ result = CryptRaise("")
    /\ warnings = <<>>
    /\ at = 0
    /\ certificate = ""
    /\ lalgo = NoLalgo

CallGetpidtestResult ==
    /\ pc = "called"
    /\ fn = "validate_getpidtest_result"
    /\ result' = validate_getpidtest_result(crypt)
    /\ pc' = "done"
    /\ at' = IF result'.kind = "raise" /\ result'.exc = "DecryptionFailure" THEN 118 ELSE 120
    /\ UNCHANGED <<fn, args, mandlist, session, warnings, certificate, lalgo, crypt>>

NextCrypt == CallGetpidtestResult

SpecCrypt == InitCrypt /\ [][NextCrypt]_vars

\* C8: validate_getpidtest_result always yields a boolean: TRUE iff the tag
\* verifies under the key derived from privatekey x ephemeral point and the
\* decrypted text equals the expected plaintext; with another private key or
\* a corrupted tag it returns FALSE instead of propagating the failure.
C8_AlwaysBoolean ==
    (pc = "done" /\ fn = "validate_getpidtest_result") =>
        /\ result.kind = "return"
        /\ result.value <=>
              /\ TagVerifies(crypt.ciphertext, crypt.nonce, crypt.authTag,
                             ec_Point(crypt.ciphertextPubKey), crypt.privatekey)
              /\ crypt.message \in DOMAIN Utf8Table
              /\ Utf8Table[crypt.message] = crypt.plaintext

====
